---- MODULE Spec2Model ----
(***************************************************************************)
(* File-Analytics-Dashboard: the metadata catalog (FileMetadata rows), the *)
(* shared folder on disk, the REST handlers that write both, and the       *)
(* reconciliation engine scan_shared_folder (dashboard/utils.py).          *)
(*                                                                         *)
(* File names are sequences of one-character strings, so that lower(),     *)
(* lstrip(), replace() and os.path.splitext() are computed as Python       *)
(* computes them.  Instants are whole seconds.  The platform is POSIX:     *)
(* os.path.sep is "/", the file system is case-sensitive.                  *)
(*                                                                         *)
(* Spec      requests and file events, each served without interruption.   *)
(* SpecFault uploads, file events and runs of scan_shared_folder during    *)
(*           which one statement of the database may fail.                 *)
(* SpecConc  requests served by MaxProcs workers: every handler is cut     *)
(*           between its read of the table and its write.                  *)
(***************************************************************************)
EXTENDS Integers, Sequences, FiniteSets, TLC

\* ---------------------------------------------------------------- bounds
MaxId     == 2      \* rows ever inserted into the catalog (AutoField values)
MaxTime   == 3      \* the clock stops ticking here
MaxAccess == 1      \* cap of access_count
MaxOps    == 3      \* requests and external file events in one behaviour
MaxProcs  == 2      \* requests that are in flight at the same time

\* ------------------------------------------------------- program constants
THRESHOLD == 2      \* utils.py: THRESHOLD = timedelta(seconds=2)

None   == "None"    \* a null foreign key
NoTime == -1        \* a null last_modified_date

SharedDir  == "/srv/shared"    \* the directory SHARED_FOLDER_PATH names
CwdDir     == "/app"           \* the process's working directory
MissingDir == "/nonexistent"   \* a path that is not on disk
Unset      == ""               \* an empty / unset path

Users == {"alice"}
\* user.profile: alice manages team t1
profile(u) == [team |-> "t1", role |-> "manager"]
Teams == {"t1"}

\* byte counts: what requests carry, and what other processes write
UploadSizes == {1}
ExtSizes    == {2}

\* names that uploads carry and that external processes create in the folder
NamePool == { <<"a", ".", "T">>, <<"A", ".", "t">>, <<".", "b">> }

\* the working directory holds the project's own files; they never change
CwdTree == [n \in { <<"m">> } |-> [size |-> 1, mtime |-> 0, ok |-> TRUE]]

VARIABLES
  catalog,             \* FileMetadata table: id -> row
  nextId,              \* next AutoField value
  disk,                \* files under SharedDir: name -> [size, mtime, ok]
  now,                 \* the clock (timezone.now(), and the mtime of writes)
  SHARED_FOLDER_PATH,  \* settings.SHARED_FOLDER_PATH (Unset when not configured)
  ops,                 \* requests and external file events so far
  threads              \* the requests in flight: worker -> its local variables

vars == <<catalog, nextId, disk, now, SHARED_FOLDER_PATH, ops, threads>>

\* the workers that serve requests, and a worker that serves none
Procs == 1..MaxProcs
Idle == [op |-> "idle"]

\* ------------------------------------------------------------ str methods
\* str.lower(), one character
lower_char(c) == IF c = "A" THEN "a" ELSE IF c = "T" THEN "t" ELSE c

\* str.lower()
lower(s) == [i \in 1..Len(s) |-> lower_char(s[i])]

\* str.replace(old, new) for one-character old and new
replace(s, old, new) == [i \in 1..Len(s) |-> IF s[i] = old THEN new ELSE s[i]]

\* str.lstrip(chars): drops every leading character that is in chars
RECURSIVE lstrip(_, _)
lstrip(s, chars) ==
  IF s # <<>> /\ Head(s) \in chars THEN lstrip(Tail(s), chars) ELSE s

\* index of the last occurrence of c in s, 0 when there is none (str.rfind + 1)
rfind(s, c) ==
  LET hits == {i \in 1..Len(s) : s[i] = c}
  IN IF hits = {} THEN 0 ELSE CHOOSE i \in hits : \A j \in hits : j <= i

\* os.path.splitext(p) (posixpath / genericpath._splitext): <<root, ext>>
splitext(p) ==
  LET sepIndex == rfind(p, "/")
      dotIndex == rfind(p, ".")
  IN IF dotIndex > sepIndex
        /\ \E i \in (sepIndex + 1)..(dotIndex - 1) : p[i] # "."
     THEN <<SubSeq(p, 1, dotIndex - 1), SubSeq(p, dotIndex, Len(p))>>
     ELSE <<p, <<>> >>

\* os.path.splitext(name)[1].lower().lstrip('.')
file_type_of(name) == lstrip(lower(splitext(name)[2]), {"."})

\* django.utils.text.get_valid_filename: strip, ' ' -> '_', drop what is not [-\w.]
get_valid_filename(name) ==
  LET s == replace(name, " ", "_")
  IN SelectSeq(s, LAMBDA c : c \notin {"/", "\\"})

\* ------------------------------------------------------------- os / os.path
\* os.path.abspath: the empty path is the working directory
abspath(p) == IF p = Unset THEN CwdDir ELSE p

\* os.path.exists for a directory
dir_exists(d) == d \in {SharedDir, CwdDir}

\* the regular files os.walk(base) yields, by their path relative to base
walk(base, dsk) ==
  IF base = SharedDir THEN dsk
  ELSE IF base = CwdDir THEN CwdTree
  ELSE << >>

\* os.path.join(root, fname): an absolute path is <<directory, relative name>>
join(base, fname) == <<base, fname>>

\* os.path.relpath(path_abs, base_abs)
relpath(path, base) == IF path[1] = base THEN path[2] ELSE <<".", ".", "/">> \o path[2]

\* os.path.exists / os.remove / open(..., 'wb') on a file of the shared folder
\* (an inaccessible file cannot be stat'ed, so os.path.exists is False for it)
file_exists(dsk, name) == name \in DOMAIN dsk /\ dsk[name].ok
can_open(dsk, name) == name \in DOMAIN dsk => dsk[name].ok
remove(dsk, name) == [n \in DOMAIN dsk \ {name} |-> dsk[n]]
write_file(dsk, name, size, t) == (name :> [size |-> size, mtime |-> t, ok |-> TRUE]) @@ dsk

\* utils.normalize_relpath
normalize_relpath(path, base) ==
  LET rel == replace(relpath(path, abspath(base)), "/", "/")
  IN lstrip(rel, {".", "/"})

\* ------------------------------------------------------------ the catalog
\* FileMetadata.objects.create(...): access_count defaults to 0
new_row(id, name, size, type, uploader, modifier, t, team) ==
  [id |-> id, file_name |-> name, file_size |-> size, file_type |-> type,
   uploaded_by |-> uploader, modified_by |-> modifier,
   last_modified_date |-> t, team |-> team, access_count |-> 0]

insert(cat, row) == (row.id :> row) @@ cat
delete_row(cat, id) == [i \in DOMAIN cat \ {id} |-> cat[i]]

\* ------------------------------------------------- utils.scan_shared_folder
NoStats == [created |-> 0, updated |-> 0, deleted |-> 0]

\* the key of a catalog row: (f.file_name or '').replace('\\', '/').lower()
db_key(file_name) == lower(replace(file_name, "\\", "/"))

\* step 1: for f in db_qs: db_map[key] = f.  Rows come in primary-key order, so
\* of several rows with one key the last (largest id) stays in the map.
build_db_map(cat) ==
  LET keys == {db_key(cat[i].file_name) : i \in DOMAIN cat}
  IN [k \in keys |->
        LET ids == {i \in DOMAIN cat : db_key(cat[i].file_name) = k}
        IN cat[CHOOSE i \in ids : \A j \in ids : j <= i]]

\* the key of a disk file: normalize_relpath(full, base).lower()
disk_key(name, base) == lower(normalize_relpath(join(base, name), base))

\* step 2: disk_map[rel.lower()] = {'rel': rel, 'full': full}.  Of several files
\* with one key the one os.walk lists last stays; the listing order of an
\* unchanged directory is fixed, which CHOOSE models.
build_disk_map(tree, base) ==
  LET keys == {disk_key(n, base) : n \in DOMAIN tree}
  IN [k \in keys |->
        LET n == CHOOSE n \in DOMAIN tree : disk_key(n, base) = k
        IN [rel |-> normalize_relpath(join(base, n), base), full |-> n]]

\* a variant that treats a difference of exactly THRESHOLD as an edit
should_update_inclusive(db_last_utc, fs_dt) ==
  \/ db_last_utc = NoTime
  \/ fs_dt >= db_last_utc + THRESHOLD

\* a variant without the tolerance: any newer disk instant is an edit
should_update_any_newer(db_last_utc, fs_dt) ==
  \/ db_last_utc = NoTime
  \/ fs_dt > db_last_utc

\* lines 99-104: is the disk file significantly newer than the row?
should_update(db_last_utc, fs_dt) ==
  \/ db_last_utc = NoTime
  \/ fs_dt > db_last_utc + THRESHOLD

\* a variant that keeps the modifier of the row
apply_update_keeps_modifier(st, db_obj, fs_dt, fs_size, dry_run) ==
  [st EXCEPT
     !.cat = IF dry_run THEN @
             ELSE [@ EXCEPT ![db_obj.id].last_modified_date = fs_dt,
                            ![db_obj.id].file_size = fs_size],
     !.stats.updated = @ + 1,
     !.upd = @ \cup {db_obj.id}]

\* a variant that writes the row as the create path does, team included
apply_update_clears_team(st, db_obj, fs_dt, fs_size, dry_run) ==
  [st EXCEPT
     !.cat = IF dry_run THEN @
             ELSE [@ EXCEPT ![db_obj.id].last_modified_date = fs_dt,
                            ![db_obj.id].file_size = fs_size,
                            ![db_obj.id].modified_by = None,
                            ![db_obj.id].team = None],
     !.stats.updated = @ + 1,
     !.upd = @ \cup {db_obj.id}]

\* lines 106-113: the update of a matched row, save(update_fields=[...])
apply_update(st, db_obj, fs_dt, fs_size, dry_run) ==
  [st EXCEPT
     !.cat = IF dry_run THEN @
             ELSE [@ EXCEPT ![db_obj.id].last_modified_date = fs_dt,
                            ![db_obj.id].file_size = fs_size,
                            ![db_obj.id].modified_by = None],
     !.stats.updated = @ + 1,
     !.upd = @ \cup {db_obj.id}]

\* lines 118-134: a disk file that no row matches
apply_create(st, rel, fs_dt, fs_size, create_missing, dry_run) ==
  IF create_missing /\ ~dry_run
  THEN [st EXCEPT
          !.cat = insert(@, new_row(st.nextId, rel, fs_size, file_type_of(rel),
                                    None, None, fs_dt, None)),
          !.nextId = @ + 1,
          !.stats.created = @ + 1,
          !.cre = @ \cup {st.nextId}]
  ELSE st

\* a variant that deletes in a dry run too
apply_delete_ignores_dry_run(st, db_obj, dry_run) ==
  [st EXCEPT
     !.cat = delete_row(@, db_obj.id),
     !.stats.deleted = @ + 1,
     !.del = @ \cup {db_obj.id}]

\* lines 138-143: a row whose key no disk file has
apply_delete(st, db_obj, dry_run) ==
  [st EXCEPT
     !.cat = IF dry_run THEN @ ELSE delete_row(@, db_obj.id),
     !.stats.deleted = @ + 1,
     !.del = @ \cup {db_obj.id}]

\* The database statements of one run that fail: the ids whose save() raises,
\* the relative paths whose objects.create() raises, the ids whose delete()
\* raises.  No statement fails in NoFaults.
NoFaults == [save |-> {}, create |-> {}, delete |-> {}]

\* lines 112 and 142: save() and delete() are called outside any try block, so
\* their exception leaves scan_shared_folder; the rows written so far stay
\* (autocommit) and no counters are returned
raise(st) == [st EXCEPT !.outcome = "DatabaseError"]

\* a variant in which a failing objects.create() leaves the function too
create_failed_raises(st) == [st EXCEPT !.outcome = "DatabaseError"]

\* lines 133-134: except Exception: logger.exception(...); the loop goes on
create_failed(st) == st

\* step 3, lines 69-134: for key_lower, info in disk_map.items()
RECURSIVE scan_disk(_, _, _, _, _, _, _, _)
scan_disk(todo, st, db_map, disk_map, tree, create_missing, dry_run, faults) ==
  IF todo = {} \/ st.outcome # "ok" THEN st
  ELSE
    LET key_lower == CHOOSE k \in todo : TRUE
        info == disk_map[key_lower]
        f == tree[info.full]
        st2 ==
          IF ~f.ok THEN st      \* OSError from getmtime/getsize: continue
          ELSE IF key_lower \in DOMAIN db_map
          THEN IF should_update(db_map[key_lower].last_modified_date, f.mtime)
               THEN IF /\ ~dry_run
                       /\ \/ db_map[key_lower].id \in faults.save
                          \* the row is gone: save(update_fields) raises DatabaseError
                          \/ db_map[key_lower].id \notin DOMAIN st.cat
                    THEN raise(st)
                    ELSE apply_update(st, db_map[key_lower], f.mtime, f.size, dry_run)
               ELSE st
          ELSE IF create_missing /\ ~dry_run /\ info.rel \in faults.create
               THEN create_failed(st)
               ELSE apply_create(st, info.rel, f.mtime, f.size, create_missing, dry_run)
    IN scan_disk(todo \ {key_lower}, st2, db_map, disk_map, tree,
                 create_missing, dry_run, faults)

\* step 4, lines 138-143: for key_lower, db_obj in list(db_map.items())
RECURSIVE scan_deleted(_, _, _, _, _, _)
scan_deleted(todo, st, db_map, disk_map, dry_run, faults) ==
  IF todo = {} \/ st.outcome # "ok" THEN st
  ELSE
    LET key_lower == CHOOSE k \in todo : TRUE
        st2 == IF key_lower \notin DOMAIN disk_map
               THEN IF ~dry_run /\ db_map[key_lower].id \in faults.delete
                    THEN raise(st)
                    ELSE apply_delete(st, db_map[key_lower], dry_run)
               ELSE st
    IN scan_deleted(todo \ {key_lower}, st2, db_map, disk_map, dry_run, faults)

\* steps 2 to 4, lines 56-146, with the db_map that step 1 loaded: the rows of
\* db_map are the objects of that moment, the statements act on the table st.cat
scan_steps(db_map, st0, dsk, base, create_missing, dry_run, faults) ==
  LET tree == walk(base, dsk)
      disk_map == build_disk_map(tree, base)
      st1 == scan_disk(DOMAIN disk_map, st0, db_map, disk_map, tree,
                       create_missing, dry_run, faults)
  IN scan_deleted(DOMAIN db_map, st1, db_map, disk_map, dry_run, faults)

\* scan_shared_folder(root_path, create_missing, dry_run) run to its end on the
\* catalog cat (next id nid), the disk dsk and the configured setting, while the
\* database statements in faults fail:
\* [outcome, cat, nextId, stats, upd, cre, del]
scan_with_faults(cat, nid, dsk, setting, root_path, create_missing, dry_run, faults) ==
  LET base == abspath(IF root_path # Unset THEN root_path ELSE setting)
      st0 == [outcome |-> "ok", cat |-> cat, nextId |-> nid, stats |-> NoStats,
              upd |-> {}, cre |-> {}, del |-> {}]
  IN IF base = Unset \/ ~dir_exists(base)
     THEN [st0 EXCEPT !.outcome = "ValueError"]
     ELSE scan_steps(build_db_map(cat), st0, dsk, base, create_missing, dry_run,
                     faults)

\* scan_shared_folder on a database that answers every statement
scan_shared_folder(cat, nid, dsk, setting, root_path, create_missing, dry_run) ==
  scan_with_faults(cat, nid, dsk, setting, root_path, create_missing, dry_run,
                   NoFaults)

\* ----------------------------------------------------------------- actions
Init ==
  /\ catalog = << >>
  /\ nextId = 1
  /\ disk = << >>
  /\ now = 0
  /\ SHARED_FOLDER_PATH \in {SharedDir, Unset}
  /\ ops = 0
  /\ threads = [p \in Procs |-> Idle]

\* a request or an external file event: it counts against MaxOps
Event ==
  /\ ops < MaxOps
  /\ ops' = ops + 1
  /\ UNCHANGED <<now, SHARED_FOLDER_PATH>>

\* an event that runs from its first to its last statement with nothing in
\* between
Serial == Event /\ UNCHANGED threads

\* a second passes
Tick ==
  /\ now < MaxTime
  /\ now' = now + 1
  /\ UNCHANGED <<catalog, nextId, disk, SHARED_FOLDER_PATH, ops, threads>>

\* another process writes a file of the shared folder (creates or overwrites it)
ExtWrite ==
  \E n \in NamePool \cup DOMAIN disk, size \in ExtSizes :
    /\ Serial
    /\ disk' = write_file(disk, n, size, now)
    /\ UNCHANGED <<catalog, nextId>>

\* another process removes a file of the shared folder
ExtRemove ==
  \E n \in DOMAIN disk :
    /\ Serial
    /\ disk' = remove(disk, n)
    /\ UNCHANGED <<catalog, nextId>>

\* a file becomes inaccessible (os.walk lists it, but stat, open and remove
\* raise OSError and os.path.exists is False), or accessible again
ExtChmod ==
  \E n \in DOMAIN disk :
    /\ Serial
    /\ disk' = [disk EXCEPT ![n].ok = ~@]
    /\ UNCHANGED <<catalog, nextId>>

\* views.FileListCreateAPIView.perform_create: an authenticated upload
perform_create ==
  \E user \in Users, original_name \in NamePool, size \in UploadSizes :
    LET safe_name0 == get_valid_filename(original_name)
        base == SHARED_FOLDER_PATH
        stamp == <<"_", ToString(now)>>
        safe_name == IF file_exists(disk, safe_name0)
                     THEN splitext(safe_name0)[1] \o stamp \o splitext(safe_name0)[2]
                     ELSE safe_name0
    IN /\ Serial
       /\ nextId <= MaxId
       /\ IF \/ profile(user).team = None       \* PermissionDenied
             \/ base = Unset                    \* APIException
             \/ ~can_open(disk, safe_name)          \* open() fails
          THEN UNCHANGED <<catalog, nextId, disk>>
          ELSE /\ disk' = write_file(disk, safe_name, size, now)
               /\ catalog' = insert(catalog,
                    new_row(nextId, safe_name, size, file_type_of(safe_name),
                            user, user, now, profile(user).team))
               /\ nextId' = nextId + 1

\* a request without the 'file' field
NoFile == [name |-> << >>, size |-> 0]

\* serializers.FileMetaDataSerializer.update, the row it saves
serializer_update(instance, validated_data, file_obj, t) ==
  LET a == [instance EXCEPT !.team = IF validated_data.team # None
                                     THEN validated_data.team ELSE @,
                            !.modified_by = validated_data.modified_by,
                            !.last_modified_date = validated_data.last_modified_date]
      b == IF file_obj # NoFile
           THEN [a EXCEPT !.file_name = file_obj.name,
                          !.file_size = file_obj.size,
                          !.file_type = file_type_of(file_obj.name),
                          !.last_modified_date = t]
           ELSE a
  IN [b EXCEPT !.team = IF validated_data.team # None
                        THEN validated_data.team ELSE @,
               !.modified_by = validated_data.modified_by,
               !.last_modified_date = validated_data.last_modified_date]

\* views.FileDetailAPIView.perform_update: PUT / PATCH of a row
perform_update ==
  \E user \in Users, pk \in DOMAIN catalog, team_id \in Teams \cup {None},
     file_obj \in {NoFile} \cup [name : NamePool, size : UploadSizes] :
    /\ Serial
    /\ catalog' = [catalog EXCEPT ![pk] =
         serializer_update(@, [team |-> team_id, modified_by |-> user,
                               last_modified_date |-> now], file_obj, now)]
    /\ UNCHANGED <<nextId, disk>>

\* views.resolve_shared_path: the file of a row; raises ValueError without a base
resolve_shared_path(file_name) ==
  [raises |-> SHARED_FOLDER_PATH = Unset, path |-> file_name]

\* views.FileDetailAPIView.perform_destroy: an authorized delete
perform_destroy ==
  \E user \in Users, pk \in DOMAIN catalog :
    LET full_path == resolve_shared_path(catalog[pk].file_name)
    IN /\ Serial
       /\ IF ~(profile(user).team # None /\ profile(user).role = "manager"
               /\ catalog[pk].team = profile(user).team)
          THEN UNCHANGED <<catalog, nextId, disk>>     \* PermissionDenied
          ELSE /\ disk' = IF /\ ~full_path.raises
                             /\ file_exists(disk, full_path.path)
                          THEN remove(disk, full_path.path)
                          ELSE disk
               /\ catalog' = delete_row(catalog, pk)
               /\ UNCHANGED nextId

\* views.FileAccessAPIView.post: an access event
FileAccess_post ==
  \E pk \in DOMAIN catalog :
    /\ Serial
    /\ catalog[pk].access_count < MaxAccess
    /\ catalog' = [catalog EXCEPT ![pk].access_count = @ + 1]
    /\ UNCHANGED <<nextId, disk>>

\* views.FileContentAPIView.post: an authenticated content save
FileContent_post ==
  \E user \in Users, pk \in DOMAIN catalog, size \in UploadSizes :
    LET full_path == resolve_shared_path(catalog[pk].file_name)
    IN /\ Serial
       /\ IF \/ ~(profile(user).team # None /\ catalog[pk].team = profile(user).team)
             \/ full_path.raises
             \/ ~can_open(disk, full_path.path)
          THEN UNCHANGED <<catalog, nextId, disk>>     \* 403 / 500
          ELSE /\ disk' = write_file(disk, full_path.path, size, now)
               /\ catalog' = [catalog EXCEPT ![pk].file_size = size,
                                             ![pk].last_modified_date = now,
                                             ![pk].modified_by = user]
               /\ UNCHANGED nextId

\* a call of scan_shared_folder (the reconcile operation)
Scan(root, create_missing, dry_run) ==
  LET r == scan_shared_folder(catalog, nextId, disk, SHARED_FOLDER_PATH,
                              root, create_missing, dry_run)
  IN /\ r.nextId <= MaxId + 1
     /\ catalog' = r.cat
     /\ nextId' = r.nextId
     /\ UNCHANGED <<disk, now, SHARED_FOLDER_PATH, ops, threads>>

\* reconcile(rootPath, createMissing, dryRun), called directly
Reconcile ==
  \E root \in {Unset, SharedDir, MissingDir}, create_missing \in BOOLEAN,
     dry_run \in BOOLEAN :
    Scan(root, create_missing, dry_run)

\* views.RescanSharedFolderAPIView.post
RescanSharedFolder_post ==
  \E user \in Users :
    IF profile(user).role # "manager"
    THEN UNCHANGED vars
    ELSE Scan(SHARED_FOLDER_PATH, TRUE, FALSE)

\* management/commands/scan_shared.py Command.handle
Command_handle ==
  \E opt_path \in {Unset, SharedDir, MissingDir}, create_missing \in BOOLEAN :
    LET path == IF opt_path # Unset THEN opt_path ELSE SHARED_FOLDER_PATH
    IN IF path = Unset
       THEN UNCHANGED vars
       ELSE Scan(path, create_missing, FALSE)

Next ==
  \/ Tick
  \/ ExtWrite
  \/ ExtRemove
  \/ ExtChmod
  \/ perform_create
  \/ perform_update
  \/ perform_destroy
  \/ FileAccess_post
  \/ FileContent_post
  \/ Reconcile
  \/ RescanSharedFolder_post
  \/ Command_handle

Spec == Init /\ [][Next]_vars

\* ------------------------------------------- reconcile on a failing database
\* the relative paths a walk of base yields
rels(base, dsk) ==
  {normalize_relpath(join(base, n), base) : n \in DOMAIN walk(base, dsk)}

\* the runs in which at most one database statement fails
Faults(cat, base, dsk) ==
  {NoFaults}
    \cup {[NoFaults EXCEPT !.save = {i}] : i \in DOMAIN cat}
    \cup {[NoFaults EXCEPT !.delete = {i}] : i \in DOMAIN cat}
    \cup {[NoFaults EXCEPT !.create = {n}] : n \in rels(base, dsk)}

\* a call of scan_shared_folder(root, create_missing, dry_run = False) during
\* which the database may fail; what was written before an exception stays
\* written.  (A dry run issues no statement that could fail.)
ReconcileFault ==
  \E root \in {Unset, SharedDir}, create_missing \in BOOLEAN :
    \E faults \in Faults(catalog,
                         abspath(IF root # Unset THEN root ELSE SHARED_FOLDER_PATH),
                         disk) :
      LET r == scan_with_faults(catalog, nextId, disk, SHARED_FOLDER_PATH,
                                root, create_missing, FALSE, faults)
      IN /\ r.nextId <= MaxId + 1
         /\ catalog' = r.cat
         /\ nextId' = r.nextId
         /\ UNCHANGED <<disk, now, SHARED_FOLDER_PATH, ops, threads>>

NextFault ==
  \/ Tick
  \/ ExtWrite
  \/ ExtRemove
  \/ ExtChmod
  \/ perform_create
  \/ ReconcileFault

SpecFault == Init /\ [][NextFault]_vars

\* ------------------------------------- requests whose statements interleave
\* Each worker runs one request at a time.  A request is cut where it has read
\* the row (or the table) into local variables and has not yet written.

\* the worker that takes the next request: the first one that is free
free(p) == threads[p] = Idle /\ \A q \in Procs : threads[q] = Idle => p <= q

\* views.FileAccessAPIView.post, line 297: file_obj = get_object_or_404(...)
FileAccess_get ==
  \E p \in Procs, pk \in DOMAIN catalog :
    /\ free(p)
    /\ Event
    /\ catalog[pk].access_count < MaxAccess
    /\ threads' = [threads EXCEPT ![p] = [op |-> "access", file_obj |-> catalog[pk]]]
    /\ UNCHANGED <<catalog, nextId, disk>>

\* lines 299-300: file_obj.access_count = (file_obj.access_count or 0) + 1;
\* file_obj.save(update_fields=['access_count'])
FileAccess_save ==
  \E p \in Procs :
    /\ threads[p].op = "access"
    /\ LET file_obj == threads[p].file_obj
       IN catalog' = IF file_obj.id \in DOMAIN catalog
                     THEN [catalog EXCEPT ![file_obj.id].access_count =
                                             file_obj.access_count + 1]
                     ELSE catalog      \* DatabaseError: no row was updated
    /\ threads' = [threads EXCEPT ![p] = Idle]
    /\ UNCHANGED <<nextId, disk, now, SHARED_FOLDER_PATH, ops>>

\* UpdateAPIView: instance = self.get_object(), for a PATCH of the metadata
\* (team_id); the replacement of the file is in perform_update
perform_update_get ==
  \E p \in Procs, user \in Users, pk \in DOMAIN catalog, team_id \in Teams \cup {None} :
    /\ free(p)
    /\ Event
    /\ threads' = [threads EXCEPT ![p] =
         [op |-> "update", instance |-> catalog[pk], team_id |-> team_id,
          user |-> user]]
    /\ UNCHANGED <<catalog, nextId, disk>>

\* views.perform_update and serializers.update: instance.save() writes every
\* column of the instance (an UPDATE, and an INSERT when no row has its id)
perform_update_save ==
  \E p \in Procs :
    /\ threads[p].op = "update"
    /\ LET t == threads[p]
           row == serializer_update(t.instance,
                    [team |-> t.team_id, modified_by |-> t.user,
                     last_modified_date |-> now], NoFile, now)
       IN catalog' = (row.id :> row) @@ catalog
    /\ threads' = [threads EXCEPT ![p] = Idle]
    /\ UNCHANGED <<nextId, disk, now, SHARED_FOLDER_PATH, ops>>

\* views.FileContentAPIView.post, lines 357-369: the row is read, the
\* permission checked and the content written to the file
FileContent_write ==
  \E p \in Procs, user \in Users, pk \in DOMAIN catalog, size \in UploadSizes :
    LET file_obj == catalog[pk]
        full_path == resolve_shared_path(file_obj.file_name)
    IN /\ free(p)
       /\ Event
       /\ IF \/ ~(profile(user).team # None /\ file_obj.team = profile(user).team)
             \/ full_path.raises
             \/ ~can_open(disk, full_path.path)
          THEN UNCHANGED <<catalog, nextId, disk, threads>>     \* 403 / 500
          ELSE /\ disk' = write_file(disk, full_path.path, size, now)
               /\ threads' = [threads EXCEPT ![p] =
                    [op |-> "content", file_obj |-> file_obj, user |-> user]]
               /\ UNCHANGED <<catalog, nextId>>

\* lines 371-374: file_size = os.path.getsize(full_path), last_modified_date =
\* timezone.now(), modified_by = user, save(update_fields=[...]).  A run of
\* scan_shared_folder in flight notes in 'saved' that the row was saved since
\* it loaded db_map.
FileContent_save ==
  \E p \in Procs :
    /\ threads[p].op = "content"
    /\ LET t == threads[p]
           id == t.file_obj.id
           path == t.file_obj.file_name
           written == file_exists(disk, path) /\ id \in DOMAIN catalog
       IN /\ catalog' = IF written
                        THEN [catalog EXCEPT ![id].file_size = disk[path].size,
                                             ![id].last_modified_date = now,
                                             ![id].modified_by = t.user]
                        ELSE catalog      \* OSError / DatabaseError: 500
          /\ threads' = [q \in Procs |->
               IF q = p THEN Idle
               ELSE IF threads[q].op = "scan" /\ written
                    THEN [threads[q] EXCEPT !.saved = @ \cup {id}]
                    ELSE threads[q]]
    /\ UNCHANGED <<nextId, disk, now, SHARED_FOLDER_PATH, ops>>

\* scan_shared_folder(root, create_missing, dry_run = False), lines 40-54: the
\* base is checked and db_map loaded from the table (step 1)
Scan_load ==
  \E p \in Procs, root \in {Unset, SharedDir}, create_missing \in BOOLEAN :
    LET base == abspath(IF root # Unset THEN root ELSE SHARED_FOLDER_PATH)
    IN /\ free(p)
       /\ Event
       /\ base # Unset /\ dir_exists(base)
       /\ threads' = [threads EXCEPT ![p] =
            [op |-> "scan", base |-> base, create_missing |-> create_missing,
             db_map |-> build_db_map(catalog), saved |-> {}]]
       /\ UNCHANGED <<catalog, nextId, disk>>

\* what a run that loaded db_map does to the table in steps 2 to 4
scan_rest(t, cat, nid, dsk) ==
  scan_steps(t.db_map,
             [outcome |-> "ok", cat |-> cat, nextId |-> nid, stats |-> NoStats,
              upd |-> {}, cre |-> {}, del |-> {}],
             dsk, t.base, t.create_missing, FALSE, NoFaults)

\* lines 56-146: the walk and the statements of steps 3 and 4, with the db_map
\* of Scan_load
Scan_apply ==
  \E p \in Procs :
    /\ threads[p].op = "scan"
    /\ LET r == scan_rest(threads[p], catalog, nextId, disk)
       IN /\ r.nextId <= MaxId + 1
          /\ catalog' = r.cat
          /\ nextId' = r.nextId
    /\ threads' = [threads EXCEPT ![p] = Idle]
    /\ UNCHANGED <<disk, now, SHARED_FOLDER_PATH, ops>>

NextConc ==
  \/ Tick
  \/ perform_create
  \/ FileAccess_get
  \/ FileAccess_save
  \/ perform_update_get
  \/ perform_update_save
  \/ FileContent_write
  \/ FileContent_save
  \/ Scan_load
  \/ Scan_apply

SpecConc == Init /\ [][NextConc]_vars

\* ------------------------------------------------------------------ claims
Roots == {Unset, SharedDir, MissingDir}

\* reconcile(root, create_missing, dry_run) applied to the current state
run(root, create_missing, dry_run) ==
  scan_shared_folder(catalog, nextId, disk, SHARED_FOLDER_PATH,
                     root, create_missing, dry_run)

\* the directory a call scans, and the files in it
base_of(root) == abspath(IF root # Unset THEN root ELSE SHARED_FOLDER_PATH)
tree_of(root) == walk(base_of(root), disk)

\* a path after case folding
fold(name) == lower(name)

\* C1: a reconcile run repeated with the same arguments, with no file change and
\* no application write in between, returns created = updated = deleted = 0.
C1_Idempotence ==
  \A root \in Roots, create_missing \in BOOLEAN :
    LET r1 == run(root, create_missing, FALSE)
        r2 == scan_shared_folder(r1.cat, r1.nextId, disk, SHARED_FOLDER_PATH,
                                 root, create_missing, FALSE)
    IN r1.outcome = "ok" => r2.stats = NoStats

\* C2: a row and a disk file whose relative paths are equal after case folding are
\* one identity: reconcile neither deletes the row nor creates a row for the file.
C2_CaseInsensitiveMatch ==
  \A root \in Roots, create_missing \in BOOLEAN, dry_run \in BOOLEAN :
    LET r == run(root, create_missing, dry_run)
    IN r.outcome = "ok" =>
         \A i \in DOMAIN catalog, n \in DOMAIN tree_of(root) :
           fold(catalog[i].file_name) = fold(n) =>
             /\ i \notin r.del
             /\ i \in DOMAIN r.cat
             /\ \A c \in r.cre : fold(r.cat[c].file_name) # fold(n)

\* the matched pairs of a call whose disk file can be read: key -> [row, file]
matched(root) ==
  LET db_map == build_db_map(catalog)
      tree == tree_of(root)
      disk_map == build_disk_map(tree, base_of(root))
      keys == {k \in DOMAIN db_map \cap DOMAIN disk_map : tree[disk_map[k].full].ok}
  IN [k \in keys |-> [row |-> db_map[k], file |-> tree[disk_map[k].full]]]

\* C3: a matched pair with stored instant T and disk instant M is classified as
\* updated iff the row has no stored instant or M > T + 2 seconds, and exactly
\* the updated pairs are counted in the returned updated counter.
C3_ToleranceWindow ==
  \A root \in Roots, create_missing \in BOOLEAN, dry_run \in BOOLEAN :
    LET r == run(root, create_missing, dry_run)
        m == matched(root)
        stale == {k \in DOMAIN m :
                    \/ m[k].row.last_modified_date = NoTime
                    \/ m[k].file.mtime > m[k].row.last_modified_date + 2}
    IN r.outcome = "ok" =>
         /\ r.upd = {m[k].row.id : k \in stale}
         /\ r.stats.updated = Cardinality(stale)

\* C3 happens: a pair at T + 3 seconds is updated and counted
C3_Witness ==
  LET r == run(SharedDir, FALSE, FALSE)
      m == matched(SharedDir)
  IN /\ r.outcome = "ok"
     /\ r.stats.updated = 1
     /\ \E k \in DOMAIN m :
          /\ m[k].file.mtime = m[k].row.last_modified_date + 3
          /\ m[k].row.id \in r.upd

\* C4: after a reconcile that is no dry run the catalog holds no row whose
\* case-folded relative path has no file on disk.
C4_NoRowWithoutFile ==
  \A root \in Roots, create_missing \in BOOLEAN :
    LET r == run(root, create_missing, FALSE)
    IN r.outcome = "ok" =>
         \A i \in DOMAIN r.cat :
           \E n \in DOMAIN tree_of(root) : fold(n) = fold(r.cat[i].file_name)

\* the readable disk files of a call whose case-folded path no row has
untracked(root) ==
  {n \in DOMAIN tree_of(root) :
     /\ tree_of(root)[n].ok
     /\ \A i \in DOMAIN catalog : fold(catalog[i].file_name) # fold(n)}

\* C5: without createMissing an untracked disk file gets no row and nothing is
\* counted as created; with createMissing (and no dry run) it gets exactly one
\* row, with the disk path in its original casing, the disk size and instant, the
\* lowercase extension as type, no uploader, no modifier and no team, counted once.
C5_CreationGating ==
  \A root \in Roots, dry_run \in BOOLEAN :
    LET off == run(root, FALSE, dry_run)
        on == run(root, TRUE, FALSE)
        tree == tree_of(root)
        added == DOMAIN on.cat \ DOMAIN catalog
    IN /\ off.outcome = "ok" =>
            /\ off.stats.created = 0
            /\ DOMAIN off.cat \subseteq DOMAIN catalog
       /\ on.outcome = "ok" =>
            /\ on.stats.created = Cardinality({fold(n) : n \in untracked(root)})
            /\ \A n \in untracked(root) :
                 /\ Cardinality({c \in added : fold(on.cat[c].file_name) = fold(n)}) = 1
                 /\ \A c \in added :
                      fold(on.cat[c].file_name) = fold(n) =>
                        \E f \in DOMAIN tree :
                          /\ on.cat[c].file_name = f
                          /\ on.cat[c].file_size = tree[f].size
                          /\ on.cat[c].last_modified_date = tree[f].mtime
                          /\ on.cat[c].file_type = file_type_of(f)
                          /\ on.cat[c].uploaded_by = None
                          /\ on.cat[c].modified_by = None
                          /\ on.cat[c].team = None

\* C6: a dry run creates, deletes and changes no row.
C6_DryRunFrame ==
  \A root \in Roots, create_missing \in BOOLEAN :
    LET r == run(root, create_missing, TRUE)
    IN r.cat = catalog /\ r.nextId = nextId

\* C6 happens: a dry run over one stale and one missing row returns nonzero counts
C6_Witness ==
  LET r == run(SharedDir, TRUE, TRUE)
  IN /\ r.outcome = "ok"
     /\ r.stats.updated > 0
     /\ r.stats.deleted > 0
     /\ r.cat = catalog

\* C7: a dry run returns the counts the real run returns from the same state.
C7_DryRunCounts ==
  \A root \in Roots, create_missing \in BOOLEAN :
    base_of(root) = SharedDir =>
      run(root, create_missing, TRUE).stats = run(root, create_missing, FALSE).stats

\* C8: a row that a reconcile (no dry run) classifies as updated has afterwards no
\* modifier, and the size and the instant read from its disk file.
C8_ExternalEditMarker ==
  \A root \in Roots, create_missing \in BOOLEAN :
    LET r == run(root, create_missing, FALSE)
        tree == tree_of(root)
    IN r.outcome = "ok" =>
         \A id \in r.upd :
           /\ id \in DOMAIN r.cat
           /\ r.cat[id].modified_by = None
           /\ \E n \in DOMAIN tree :
                /\ disk_key(n, base_of(root)) = db_key(catalog[id].file_name)
                /\ r.cat[id].file_size = tree[n].size
                /\ r.cat[id].last_modified_date = tree[n].mtime

\* C8 happens: the updated row named a user as modifier and had another size
C8_Witness ==
  LET r == run(SharedDir, FALSE, FALSE)
  IN /\ r.outcome = "ok"
     /\ \E id \in r.upd :
          /\ catalog[id].modified_by \in Users
          /\ catalog[id].file_size # r.cat[id].file_size
          /\ r.cat[id].modified_by = None

\* C9: reconcile with an empty root path and no configured folder, or with a root
\* path that is not on disk, fails with a configuration error and leaves the
\* catalog as it was.
C9_ConfigurationError ==
  \A root \in Roots, create_missing \in BOOLEAN, dry_run \in BOOLEAN :
    LET r == run(root, create_missing, dry_run)
    IN (\/ root = MissingDir
        \/ (root = Unset /\ SHARED_FOLDER_PATH = Unset)) =>
         /\ r.outcome = "ValueError"
         /\ r.cat = catalog

\* C10: the update path changes only size, instant and modifier of the updated
\* row: its path, type, uploader, team and access counter stay, and a row that is
\* neither updated nor deleted stays as it was.
C10_UpdateFrame ==
  \A root \in Roots, create_missing \in BOOLEAN :
    LET r == run(root, create_missing, FALSE)
    IN r.outcome = "ok" =>
         \A id \in DOMAIN catalog \cap DOMAIN r.cat :
           /\ r.cat[id].file_name = catalog[id].file_name
           /\ r.cat[id].file_type = catalog[id].file_type
           /\ r.cat[id].uploaded_by = catalog[id].uploaded_by
           /\ r.cat[id].team = catalog[id].team
           /\ r.cat[id].access_count = catalog[id].access_count
           /\ r.cat[id].id = id
           /\ id \notin r.upd => r.cat[id] = catalog[id]

\* C10 happens: an uploaded row of a team is updated while another row stays
C10_Witness ==
  LET r == run(SharedDir, FALSE, FALSE)
  IN /\ r.outcome = "ok"
     /\ \E id \in r.upd :
          /\ catalog[id].uploaded_by \in Users
          /\ catalog[id].team \in Teams
          /\ r.cat[id] # catalog[id]
     /\ \E id \in DOMAIN catalog \cap DOMAIN r.cat : id \notin r.upd

\* C11: in every reachable state no two catalog rows have relative paths that are
\* equal after case folding.
C11_UniqueFoldedPaths ==
  \A i, j \in DOMAIN catalog :
    i # j => fold(catalog[i].file_name) # fold(catalog[j].file_name)

\* C17: for every file under base, normalize_relpath gives the path of the file
\* relative to base (joining base with it designates the same file, a leading
\* '.' of a name is kept), and two distinct files never get the same result.
C17_NormalizerRoundTrip ==
  \A n \in DOMAIN disk :
    /\ normalize_relpath(join(SharedDir, n), SharedDir) = n
    /\ \A m \in DOMAIN disk :
         normalize_relpath(join(SharedDir, m), SharedDir)
           = normalize_relpath(join(SharedDir, n), SharedDir) => m = n

\* C18: when an explicit delete (the only request that removes a row) removes a
\* row, the row's backing file is absent from disk afterwards: a delete that
\* cannot remove the file leaves the row.
C18_DeleteRemovesRecordAndFile ==
  [][\A id \in DOMAIN catalog \ DOMAIN catalog' :
       ops' = ops + 1 => catalog[id].file_name \notin DOMAIN disk']_vars

\* C16: a matched row with stored instant T whose disk file has instant
\* M <= T + 2 seconds keeps every field (size, instant, modifier included) and
\* is not counted as updated, even when the disk size differs from the row's.
C16_NoOpUntouched ==
  \A root \in Roots, create_missing \in BOOLEAN, dry_run \in BOOLEAN :
    LET r == run(root, create_missing, dry_run)
        m == matched(root)
        fresh == {k \in DOMAIN m :
                    /\ m[k].row.last_modified_date # NoTime
                    /\ m[k].file.mtime <= m[k].row.last_modified_date + 2}
    IN r.outcome = "ok" =>
         /\ \A k \in fresh :
              /\ m[k].row.id \in DOMAIN r.cat
              /\ r.cat[m[k].row.id] = catalog[m[k].row.id]
              /\ m[k].row.id \notin r.upd
         /\ r.stats.updated = Cardinality(DOMAIN m \ fresh)

\* C16 happens: the disk file is newer than the row, within the tolerance, and
\* has another size; the run leaves the row as it was
C16_Witness ==
  LET r == run(SharedDir, TRUE, FALSE)
      m == matched(SharedDir)
  IN /\ r.outcome = "ok"
     /\ \E k \in DOMAIN m :
          /\ m[k].row.last_modified_date # NoTime
          /\ m[k].file.mtime > m[k].row.last_modified_date
          /\ m[k].file.mtime <= m[k].row.last_modified_date + 2
          /\ m[k].file.size # m[k].row.file_size
          /\ r.cat[m[k].row.id] = catalog[m[k].row.id]
          /\ r.stats.updated = 0

\* the disk files of a call that cannot be stat'ed and are the only file of
\* their case-folded path
unstatable(root) ==
  {n \in DOMAIN tree_of(root) :
     /\ ~tree_of(root)[n].ok
     /\ \A f \in DOMAIN tree_of(root) : fold(f) = fold(n) => f = n}

\* C15: when the size or instant of a disk file cannot be read, the run still
\* completes; the file causes no create and no update, the row of its path (if
\* any) is not deleted and keeps all its fields, and the other files are
\* processed as usual: stale matched rows are updated, untracked readable files
\* are created under createMissing, rows without a file are deleted.
C15_StatFailureSkipped ==
  \A root \in Roots, create_missing \in BOOLEAN :
    LET r == run(root, create_missing, FALSE)
        tree == tree_of(root)
        base == base_of(root)
        m == matched(root)
        db_map == build_db_map(catalog)
        disk_map == build_disk_map(tree, base)
    IN dir_exists(base) =>
         /\ r.outcome = "ok"
         /\ \A n \in unstatable(root) :
              /\ \A c \in r.cre : fold(r.cat[c].file_name) # fold(n)
              /\ \A i \in DOMAIN catalog :
                   fold(catalog[i].file_name) = fold(n) =>
                     /\ i \in DOMAIN r.cat
                     /\ r.cat[i] = catalog[i]
         /\ \A k \in DOMAIN m :
              should_update(m[k].row.last_modified_date, m[k].file.mtime) =>
                /\ m[k].row.id \in r.upd
                /\ r.cat[m[k].row.id].file_size = m[k].file.size
                /\ r.cat[m[k].row.id].last_modified_date = m[k].file.mtime
         /\ \A k \in DOMAIN disk_map \ DOMAIN db_map :
              (create_missing /\ tree[disk_map[k].full].ok) =>
                \E c \in r.cre : r.cat[c].file_name = disk_map[k].rel
         /\ \A k \in DOMAIN db_map \ DOMAIN disk_map : db_map[k].id \in r.del

\* reconcile(root, create_missing, dry_run) applied to the current state while
\* the database statements in faults fail
run_with(root, create_missing, dry_run, faults) ==
  scan_with_faults(catalog, nextId, disk, SHARED_FOLDER_PATH,
                   root, create_missing, dry_run, faults)

\* the rows a run created, without their ids
created_rows(r) == {[r.cat[c] EXCEPT !.id = 0] : c \in r.cre}

\* C13: when persisting the update of one matched row or the deletion of one
\* missing row fails, the run does not abort: it returns its counters, and every
\* other row and every disk file ends as in the run without the failure.
C13_PersistenceFailureIsolated ==
  \A root \in Roots, create_missing \in BOOLEAN :
    \A faults \in Faults(catalog, base_of(root), disk) :
      LET rf == run_with(root, create_missing, FALSE, faults)
          r0 == run(root, create_missing, FALSE)
          failed == faults.save \cup faults.delete
      IN (faults.create = {} /\ r0.outcome = "ok") =>
           /\ rf.outcome = "ok"
           /\ \A id \in DOMAIN catalog \ failed :
                /\ id \in DOMAIN rf.cat <=> id \in DOMAIN r0.cat
                /\ id \in DOMAIN rf.cat => rf.cat[id] = r0.cat[id]
           /\ created_rows(rf) = created_rows(r0)

\* C14: when persisting the row of one newly discovered disk file fails during
\* reconcile(createMissing = true, dryRun = false), the run does not raise, the
\* file is not counted as created and leaves no row, and every other disk file
\* and every missing row ends as in the run without the failure.
C14_CreationFailureIsolated ==
  \A root \in Roots :
    \A faults \in Faults(catalog, base_of(root), disk) :
      LET rf == run_with(root, TRUE, FALSE, faults)
          r0 == run(root, TRUE, FALSE)
      IN (faults.save = {} /\ faults.delete = {} /\ r0.outcome = "ok") =>
           /\ rf.outcome = "ok"
           /\ created_rows(rf)
                = {row \in created_rows(r0) : row.file_name \notin faults.create}
           /\ rf.stats.created = Cardinality(created_rows(rf))
           /\ \A id \in DOMAIN rf.cat \ DOMAIN catalog :
                rf.cat[id].file_name \notin faults.create
           /\ rf.upd = r0.upd /\ rf.del = r0.del
           /\ rf.stats.updated = r0.stats.updated
           /\ rf.stats.deleted = r0.stats.deleted
           /\ \A id \in DOMAIN catalog :
                /\ id \in DOMAIN rf.cat <=> id \in DOMAIN r0.cat
                /\ id \in DOMAIN rf.cat => rf.cat[id] = r0.cat[id]

\* C14 happens: of two untracked files one cannot be persisted; the other is
\* created and counted, and a row whose file is gone is deleted
C14_Witness ==
  \E faults \in Faults(catalog, SharedDir, disk) :
    LET rf == run_with(SharedDir, TRUE, FALSE, faults)
        r0 == run(SharedDir, TRUE, FALSE)
    IN /\ faults.create # {}
       /\ r0.outcome = "ok" /\ rf.outcome = "ok"
       /\ r0.stats.created = 2
       /\ rf.stats.created = 1
       /\ rf.stats.deleted = 1

\* C12: every access event that completes on an existing row raises the row's
\* access counter by exactly one, whatever ran between its read and its write:
\* N completed events raise it by N.
C12_AtomicAccessIncrement ==
  [][\A p \in Procs :
       (/\ threads[p].op = "access"
        /\ threads'[p] = Idle
        /\ threads[p].file_obj.id \in DOMAIN catalog) =>
         catalog'[threads[p].file_obj.id].access_count
           = catalog[threads[p].file_obj.id].access_count + 1]_vars

\* C19: while a row exists its access counter never decreases, in any
\* interleaving of access events, metadata patches, content saves and runs of
\* reconcile.
C19_AccessCounterMonotone ==
  [][\A id \in DOMAIN catalog \cap DOMAIN catalog' :
       catalog'[id].access_count >= catalog[id].access_count]_vars

\* size, instant and modifier of a row
written_fields(row) ==
  <<row.file_size, row.last_modified_date, row.modified_by>>

\* C20: when a run of reconcile ends after a content save wrote a row that the
\* run had loaded before, the row's size, instant and modifier are those of one
\* of the two serial orders: the save's (run first, then save) or those of a
\* run that starts after the save; the run never overwrites the save on the
\* basis of the row it loaded.
C20_SerializedCatalogWrites ==
  [][\A p \in Procs :
       (threads[p].op = "scan" /\ threads'[p] = Idle) =>
         LET t == threads[p]
             serial == scan_with_faults(catalog, nextId, disk, t.base, t.base,
                                        t.create_missing, FALSE, NoFaults)
         IN \A id \in t.saved \cap DOMAIN catalog \cap DOMAIN catalog' :
              \/ written_fields(catalog'[id]) = written_fields(catalog[id])
              \/ /\ id \in DOMAIN serial.cat
                 /\ written_fields(catalog'[id]) = written_fields(serial.cat[id])]_vars

\* reconcile(root, create_missing, dry_run = false) applied to the state a step
\* leads to
run_next(root, create_missing) ==
  scan_shared_folder(catalog', nextId', disk', SHARED_FOLDER_PATH',
                     root, create_missing, FALSE)

\* C21: when an upload has stored a file and created its row, a reconcile of the
\* shared folder run right afterwards (any createMissing, no dry run) matches the
\* file to that row: the row is not deleted, no second row is created for the
\* file, and the row keeps its uploader, team and modifier.  This holds for every
\* accepted name, names that start with '.' included.
C21_UploadThenReconcileNoOp ==
  [][\A id \in DOMAIN catalog' \ DOMAIN catalog :
       catalog'[id].uploaded_by \in Users =>
         \A root \in {Unset, SharedDir}, create_missing \in BOOLEAN :
           LET r == run_next(root, create_missing)
           IN /\ r.outcome = "ok"
              /\ id \in DOMAIN r.cat
              /\ id \notin r.del
              /\ \A c \in r.cre :
                   fold(r.cat[c].file_name) # fold(catalog'[id].file_name)
              /\ r.cat[id].uploaded_by = catalog'[id].uploaded_by
              /\ r.cat[id].team = catalog'[id].team
              /\ r.cat[id].modified_by = catalog'[id].modified_by]_vars

\* C22: when a content save has completed (the file written first, then the
\* current instant and the acting user stored in the row), reconcile runs that
\* follow it one after the other, with no change to the file, classify the row
\* as no-op: the row is neither updated nor deleted and its modifier stays the
\* acting user.
C22_AppEditKeepsAttribution ==
  [][\A p \in Procs :
       (/\ threads[p].op = "content"
        /\ threads'[p] = Idle
        /\ threads[p].file_obj.id \in DOMAIN catalog
        /\ file_exists(disk, threads[p].file_obj.file_name)) =>
         \A root \in {Unset, SharedDir}, create_missing \in BOOLEAN :
           LET id == threads[p].file_obj.id
               r1 == run_next(root, create_missing)
               r2 == scan_shared_folder(r1.cat, r1.nextId, disk', SHARED_FOLDER_PATH',
                                        root, create_missing, FALSE)
           IN /\ catalog'[id].modified_by = threads[p].user
              /\ r1.outcome = "ok" /\ r2.outcome = "ok"
              /\ id \notin r1.upd \cup r1.del
              /\ id \in DOMAIN r1.cat /\ r1.cat[id] = catalog'[id]
              /\ id \notin r2.upd \cup r2.del
              /\ id \in DOMAIN r2.cat /\ r2.cat[id] = catalog'[id]]_vars

====
